---- MODULE Spec2Model ----
(***************************************************************************)
(* Model of src-tauri/src/lib.rs: the Tauri command open_receipt_file and  *)
(* the bootstrap run().  Calls of the command are made concurrently by the *)
(* front-end; each call checks its path, runs the launcher block compiled  *)
(* for the target platform, and returns Ok(()) or Err(String).  The        *)
(* operating system decides the outcome of every spawn and the fate of     *)
(* every spawned child.                                                    *)
(***************************************************************************)
EXTENDS Integers, Sequences, FiniteSets, TLC

VARIABLES platform,    \* target_os the crate was compiled for
          host,        \* the host application process: starting, running, panicked
          pc,          \* per call: position in open_receipt_file
          path,        \* per call: the `path` argument
          blk,         \* per call: the cfg block the call is in (0: none)
          result,      \* per call: the value returned to the front-end
          attempts,    \* per call: the spawn requests it made to the OS, in order
          procs,       \* OS process table: procs[pid] is a spawned child
          fileAccess   \* file reads and writes made so far, and by whom

vars == <<platform, host, pc, path, blk, result, attempts, procs, fileAccess>>

----------------------------------------------------------------------------
(* Bounds and input sets *)

MaxCalls == 2

Calls == 1..MaxCalls

Paths == {"", "/tmp/receipt123.pdf", "C:\\receipts\\r1.pdf"}

\* Display texts of std::io::Error that a failed spawn can carry
OsErrors == {"", "No such file or directory (os error 2)",
             "Permission denied (os error 13)"}

Platforms == {"macos", "windows", "linux", "android"}

----------------------------------------------------------------------------
(* Result<(), String> *)

NoResult == [tag |-> "none"]

Ok == [tag |-> "Ok"]

Err(msg) == [tag |-> "Err", msg |-> msg]

Panic == [tag |-> "panic"]

----------------------------------------------------------------------------
(* Pure parts of open_receipt_file *)

IsEmptyNegated(s) == Len(s) # 0

\* path.is_empty()
IsEmpty(s) == Len(s) = 0

EmptyPathError == "path is empty"

FormatSpawnErrorNoCause(e) == "Failed to open file"

\* format!("Failed to open file: {}", e)
FormatSpawnError(e) == "Failed to open file: " \o e

SpawnErrIgnored(e) == Ok

SpawnErrUnwrap(e) == Panic

\* .map_err(|e| format!(...))? on a failed spawn: the early return value
SpawnErrResult(e) == Err(FormatSpawnError(e))

Blocks == 1..3

CfgNotMacos(b, os) ==
    CASE b = 1 -> os = "macos"
      [] b = 2 -> os = "windows"
      [] b = 3 -> os # "macos"

CfgUnguarded(b, os) ==
    CASE b = 1 -> TRUE
      [] b = 2 -> os = "windows"
      [] b = 3 -> os \notin {"macos", "windows"}

\* the #[cfg(...)] attribute of block b, evaluated for target_os = os
CfgMatches(b, os) ==
    CASE b = 1 -> os = "macos"
      [] b = 2 -> os = "windows"
      [] b = 3 -> os \notin {"macos", "windows"}

\* the blocks that are part of the compiled function body
CompiledBlocks(os) == {b \in Blocks : CfgMatches(b, os)}

Min(S) == CHOOSE x \in S : \A y \in S : x <= y

\* the first compiled block after block b; 0 when control reaches Ok(())
NextBlock(b, os) ==
    LET later == {x \in CompiledBlocks(os) : x > b}
    IN  IF later = {} THEN 0 ELSE Min(later)

LauncherNoTitle(b, p) ==
    CASE b = 1 -> [program |-> "open",     args |-> <<p>>]
      [] b = 2 -> [program |-> "cmd",      args |-> <<"/C", "start", p>>]
      [] b = 3 -> [program |-> "xdg-open", args |-> <<p>>]

LauncherStale(b, p) ==
    LET inflight == {c \in Calls : pc[c] \in {"entry", "block", "after"}}
        q == path[Min(inflight)]
    IN  CASE b = 1 -> [program |-> "open",     args |-> <<q>>]
          [] b = 2 -> [program |-> "cmd",      args |-> <<"/C", "start", "", q>>]
          [] b = 3 -> [program |-> "xdg-open", args |-> <<q>>]

\* Command::new(program).arg(&path) / .args([...]) of block b
Launcher(b, p) ==
    CASE b = 1 -> [program |-> "open",     args |-> <<p>>]
      [] b = 2 -> [program |-> "cmd",      args |-> <<"/C", "start", "", p>>]
      [] b = 3 -> [program |-> "xdg-open", args |-> <<p>>]

\* the children of call c
ChildrenOf(c) == {pid \in 1..Len(procs) : procs[pid].parent = c}

HandleDropWaits(c) ==
    \A pid \in ChildrenOf(c) : procs[pid].state \in {"exited_ok", "exited_err"}

\* the Child handle returned by spawn() is a temporary dropped at the end of
\* the statement; dropping a Child neither waits for nor kills the process
HandleDropCompletes(c) == TRUE

FinalResultFromStatus(c) ==
    IF \E pid \in ChildrenOf(c) : procs[pid].state = "exited_err"
    THEN Err("Failed to open file: exit status 1")
    ELSE Ok

\* Ok(()) at the end of the function body
FinalResult(c) == Ok

----------------------------------------------------------------------------
(* Initial state: a build for some platform, the application not yet up *)

Init ==
    /\ platform \in Platforms
    /\ host = "starting"
    /\ pc = [c \in Calls |-> "idle"]
    /\ path = [c \in Calls |-> ""]
    /\ blk = [c \in Calls |-> 0]
    /\ result = [c \in Calls |-> NoResult]
    /\ attempts = [c \in Calls |-> <<>>]
    /\ procs = <<>>
    /\ fileAccess = {}

----------------------------------------------------------------------------
(* run(): build the application and enter the event loop *)

RunOk ==
    /\ host = "starting"
    /\ host' = "running"
    /\ UNCHANGED <<platform, pc, path, blk, result, attempts, procs, fileAccess>>

\* .expect("error while running POS desktop application")
RunFails ==
    /\ host = "starting"
    /\ host' = "panicked"
    /\ UNCHANGED <<platform, pc, path, blk, result, attempts, procs, fileAccess>>

----------------------------------------------------------------------------
(* open_receipt_file *)

\* the invoke handler dispatches a front-end request to the command
Invoke(c, p) ==
    /\ host = "running"
    /\ pc[c] = "idle"
    /\ pc' = [pc EXCEPT ![c] = "entry"]
    /\ path' = [path EXCEPT ![c] = p]
    /\ UNCHANGED <<platform, host, blk, result, attempts, procs, fileAccess>>

\* if path.is_empty() { return Err("path is empty".into()); }
CheckEmpty(c) ==
    /\ host = "running"
    /\ pc[c] = "entry"
    /\ IF IsEmpty(path[c])
       THEN /\ pc' = [pc EXCEPT ![c] = "returned"]
            /\ result' = [result EXCEPT ![c] = Err(EmptyPathError)]
            /\ blk' = blk
       ELSE LET b == NextBlock(0, platform)
            IN  IF b = 0
                THEN /\ pc' = [pc EXCEPT ![c] = "returned"]
                     /\ result' = [result EXCEPT ![c] = FinalResult(c)]
                     /\ blk' = blk
                ELSE /\ pc' = [pc EXCEPT ![c] = "block"]
                     /\ blk' = [blk EXCEPT ![c] = b]
                     /\ result' = result
    /\ UNCHANGED <<platform, host, path, attempts, procs, fileAccess>>

\* Command::new(..).arg(..).spawn() succeeds: the OS starts a child
SpawnOk(c) ==
    /\ host = "running"
    /\ pc[c] = "block"
    /\ LET l == Launcher(blk[c], path[c])
           pid == Len(procs) + 1
       IN  /\ procs' = Append(procs, [program |-> l.program, args |-> l.args,
                                      parent |-> c, state |-> "running"])
           /\ attempts' = [attempts EXCEPT ![c] =
                  Append(@, [blk |-> blk[c], program |-> l.program,
                             args |-> l.args, ok |-> TRUE, pid |-> pid,
                             err |-> ""])]
    /\ pc' = [pc EXCEPT ![c] = "after"]
    /\ UNCHANGED <<platform, host, path, blk, result, fileAccess>>

\* Command::new(..).arg(..).spawn() fails with io::Error e: map_err and `?`
SpawnErr(c, e) ==
    /\ host = "running"
    /\ pc[c] = "block"
    /\ LET l == Launcher(blk[c], path[c])
           r == SpawnErrResult(e)
       IN  /\ attempts' = [attempts EXCEPT ![c] =
                  Append(@, [blk |-> blk[c], program |-> l.program,
                             args |-> l.args, ok |-> FALSE, pid |-> 0,
                             err |-> e])]
           /\ IF r = Panic
              THEN /\ host' = "panicked"
                   /\ UNCHANGED <<pc, result, blk>>
              ELSE IF r.tag = "Err"
              THEN /\ pc' = [pc EXCEPT ![c] = "returned"]
                   /\ result' = [result EXCEPT ![c] = r]
                   /\ UNCHANGED <<host, blk>>
              ELSE /\ pc' = [pc EXCEPT ![c] = "after"]
                   /\ UNCHANGED <<host, result, blk>>
    /\ UNCHANGED <<platform, path, procs, fileAccess>>

\* end of the block's statement: the Child temporary is dropped, control
\* moves to the next compiled block or to Ok(())
AfterSpawn(c) ==
    /\ host = "running"
    /\ pc[c] = "after"
    /\ HandleDropCompletes(c)
    /\ LET b == NextBlock(blk[c], platform)
       IN  IF b = 0
           THEN /\ pc' = [pc EXCEPT ![c] = "returned"]
                /\ result' = [result EXCEPT ![c] = FinalResult(c)]
                /\ blk' = blk
           ELSE /\ pc' = [pc EXCEPT ![c] = "block"]
                /\ blk' = [blk EXCEPT ![c] = b]
                /\ result' = result
    /\ UNCHANGED <<platform, host, path, attempts, procs, fileAccess>>

----------------------------------------------------------------------------
(* The spawned launcher, outside the program's control *)

LastArg(args) == args[Len(args)]

\* the launcher opens the file with the associated application
ChildOpensFile(pid) ==
    /\ pid \in 1..Len(procs)
    /\ procs[pid].state = "running"
    /\ procs' = [procs EXCEPT ![pid].state = "viewing"]
    /\ fileAccess' = fileAccess \cup
           {[by |-> "child", pid |-> pid, file |-> LastArg(procs[pid].args), mode |-> "read"]}
    /\ UNCHANGED <<platform, host, pc, path, blk, result, attempts>>

\* the launcher cannot open the file and exits with an error status
ChildFails(pid) ==
    /\ pid \in 1..Len(procs)
    /\ procs[pid].state = "running"
    /\ procs' = [procs EXCEPT ![pid].state = "exited_err"]
    /\ UNCHANGED <<platform, host, pc, path, blk, result, attempts, fileAccess>>

\* the viewer is closed
ChildExits(pid) ==
    /\ pid \in 1..Len(procs)
    /\ procs[pid].state = "viewing"
    /\ procs' = [procs EXCEPT ![pid].state = "exited_ok"]
    /\ UNCHANGED <<platform, host, pc, path, blk, result, attempts, fileAccess>>

----------------------------------------------------------------------------

MaxPid == 3 * MaxCalls

Next ==
    \/ RunOk
    \/ RunFails
    \/ \E c \in Calls, p \in Paths : Invoke(c, p)
    \/ \E c \in Calls : CheckEmpty(c)
    \/ \E c \in Calls : SpawnOk(c)
    \/ \E c \in Calls, e \in OsErrors : SpawnErr(c, e)
    \/ \E c \in Calls : AfterSpawn(c)
    \/ \E pid \in 1..MaxPid : ChildOpensFile(pid)
    \/ \E pid \in 1..MaxPid : ChildFails(pid)
    \/ \E pid \in 1..MaxPid : ChildExits(pid)

Spec == Init /\ [][Next]_vars

\* every step of a call is a step of the host's own code and is taken once
\* it is enabled; nothing is assumed about the children
FairSpec ==
    /\ Spec
    /\ \A c \in Calls : WF_vars(CheckEmpty(c))
    /\ \A c \in Calls : WF_vars(SpawnOk(c) \/ \E e \in OsErrors : SpawnErr(c, e))
    /\ \A c \in Calls : WF_vars(AfterSpawn(c))

----------------------------------------------------------------------------
(* Helpers of the properties *)

\* t occurs in s
Contains(s, t) ==
    \E i \in 1..(Len(s) + 1) :
        /\ i + Len(t) - 1 <= Len(s)
        /\ SubSeq(s, i, i + Len(t) - 1) = t

Returned(c) == pc[c] = "returned"

Failed(c) == \E i \in 1..Len(attempts[c]) : ~attempts[c][i].ok

\* the table of section 6 of the specification
ExpectedProgram(os) ==
    CASE os = "macos" -> "open"
      [] os = "windows" -> "cmd"
      [] OTHER -> "xdg-open"

ExpectedArgs(os, p) ==
    CASE os = "macos" -> <<p>>
      [] os = "windows" -> <<"/C", "start", "", p>>
      [] OTHER -> <<p>>

----------------------------------------------------------------------------
\* C1: a call with the empty path fails with "path is empty"; it makes no
\* spawn request, starts no process and never gets past the emptiness check.
C1_EmptyPathFails ==
    \A c \in Calls :
        (pc[c] # "idle" /\ path[c] = "") =>
            /\ pc[c] \in {"entry", "returned"}
            /\ attempts[c] = <<>>
            /\ ChildrenOf(c) = {}
            /\ Returned(c) => result[c] = Err("path is empty")

C1_Witness ==
    \E c \in Calls :
        /\ Returned(c) /\ path[c] = ""
        /\ result[c] = Err("path is empty")
        /\ attempts[c] = <<>>

\* C2: a call with a non-empty path that has passed its spawn step has made
\* exactly one spawn request, from exactly one platform block, and the
\* request is the platform's launcher with the path unchanged as last
\* argument: open [path], cmd ["/C","start","",path] or xdg-open [path].
C2_OneLauncherPerPlatform ==
    \A c \in Calls :
        /\ (pc[c] = "block") => (path[c] # "" /\ attempts[c] = <<>>)
        /\ (path[c] # "" /\ pc[c] \in {"after", "returned"}) =>
              /\ Len(attempts[c]) = 1
              /\ attempts[c][1].program = ExpectedProgram(platform)
              /\ attempts[c][1].args = ExpectedArgs(platform, path[c])
              /\ LastArg(attempts[c][1].args) = path[c]

C2_Witness ==
    \E c \in Calls :
        /\ Returned(c)
        /\ platform = "windows"
        /\ Len(attempts[c]) = 1
        /\ attempts[c][1].program = "cmd"
        /\ attempts[c][1].args = <<"/C", "start", "", "C:\\receipts\\r1.pdf">>

\* C3: when the spawn fails, the call fails with a message that contains
\* the OS error text and is not the empty-path message, whatever the text.
C3_SpawnFailureMessage ==
    \A c \in Calls :
        \A i \in 1..Len(attempts[c]) :
            (Returned(c) /\ ~attempts[c][i].ok) =>
                /\ path[c] # ""
                /\ result[c].tag = "Err"
                /\ Contains(result[c].msg, attempts[c][i].err)
                /\ Len(result[c].msg) > Len(attempts[c][i].err)
                /\ result[c].msg # "path is empty"

C3_Witness ==
    \E c, d \in Calls :
        /\ Returned(c) /\ Failed(c) /\ attempts[c][1].err = ""
        /\ Returned(d) /\ Failed(d)
        /\ attempts[d][1].err = "No such file or directory (os error 2)"
        /\ result[d] = Err("Failed to open file: No such file or directory (os error 2)")

\* C4: a returned call succeeded, with no payload, iff its path was
\* non-empty and its child was spawned; it failed iff its path was empty or
\* its spawn failed.
C4_SuccessIffSpawned ==
    \A c \in Calls :
        Returned(c) =>
            /\ result[c] = Ok \/ result[c].tag = "Err"
            /\ result[c] = Ok <=> (path[c] # "" /\ ChildrenOf(c) # {} /\ ~Failed(c))
            /\ result[c].tag = "Err" <=> (path[c] = "" \/ Failed(c))

C4_Witness ==
    \E c, d \in Calls :
        /\ Returned(c) /\ result[c] = Ok /\ ChildrenOf(c) # {}
        /\ Returned(d) /\ result[d].tag = "Err" /\ Failed(d)

\* C5 as stated: every returned call has started exactly one OS process,
\* and the host itself has read or written no file.
C5_ExactlyOneProcessPerCall ==
    /\ \A c \in Calls : Returned(c) => Cardinality(ChildrenOf(c)) = 1
    /\ \A a \in fileAccess : a.by # "host"

\* C5 amended: a call starts at most one OS process, exactly one when it
\* returns success and none when it returns a failure, and the host itself
\* reads and writes no file (only the spawned launchers do).
C5_AtMostOneProcessPerCall ==
    /\ \A c \in Calls :
          /\ Cardinality(ChildrenOf(c)) <= 1
          /\ Returned(c) => (Cardinality(ChildrenOf(c)) = 1 <=> result[c] = Ok)
          /\ Returned(c) => (Cardinality(ChildrenOf(c)) = 0 <=> result[c].tag = "Err")
    /\ \A a \in fileAccess : a.by = "child" /\ a.pid \in 1..Len(procs)

C5_Witness ==
    \E c, d \in Calls :
        /\ Returned(c) /\ result[c] = Ok /\ Cardinality(ChildrenOf(c)) = 1
        /\ Returned(d) /\ result[d].tag = "Err" /\ ChildrenOf(d) = {}
        /\ fileAccess # {}

\* C6: a call makes at most one spawn attempt; after a failed attempt it has
\* returned the error, with no further attempt of the same or another launcher.
C6_FailuresAreTerminal ==
    \A c \in Calls :
        /\ Len(attempts[c]) <= 1
        /\ Failed(c) =>
              /\ Returned(c)
              /\ result[c].tag = "Err"
              /\ ~attempts[c][Len(attempts[c])].ok

C6_Witness ==
    \E c \in Calls :
        /\ Returned(c) /\ Failed(c)
        /\ Len(attempts[c]) = 1
        /\ result[c].tag = "Err"

\* C7: calls do not interfere: every spawn request and every child of a
\* call carries that call's own path, children of different calls are
\* different processes, and two calls with the same path and the same OS
\* outcome made the same request and got the same result.
C7_NoInterference ==
    /\ \A c \in Calls :
          \A i \in 1..Len(attempts[c]) :
              /\ LastArg(attempts[c][i].args) = path[c]
              /\ attempts[c][i].ok =>
                    /\ attempts[c][i].pid \in 1..Len(procs)
                    /\ procs[attempts[c][i].pid].parent = c
                    /\ LastArg(procs[attempts[c][i].pid].args) = path[c]
    /\ \A c, d \in Calls :
          (c # d) =>
              \A i \in 1..Len(attempts[c]), j \in 1..Len(attempts[d]) :
                  (attempts[c][i].ok /\ attempts[d][j].ok) =>
                      attempts[c][i].pid # attempts[d][j].pid
    /\ \A c, d \in Calls :
          (/\ Returned(c) /\ Returned(d) /\ path[c] = path[d]
           /\ [i \in 1..Len(attempts[c]) |-> <<attempts[c][i].ok, attempts[c][i].err>>]
              = [j \in 1..Len(attempts[d]) |-> <<attempts[d][j].ok, attempts[d][j].err>>])
          => /\ result[c] = result[d]
             /\ [i \in 1..Len(attempts[c]) |-> attempts[c][i].args]
                = [j \in 1..Len(attempts[d]) |-> attempts[d][j].args]

C7_Witness ==
    \E c, d \in Calls :
        /\ pc[c] = "after" /\ pc[d] = "after"
        /\ path[c] = "/tmp/receipt123.pdf" /\ path[d] = "C:\\receipts\\r1.pdf"
        /\ attempts[c][1].pid # attempts[d][1].pid

\* C8: once the child is spawned the call's result is success, whatever the
\* child has done since, and the call is never held up by the child.
C8_OnlySpawnObserved ==
    \A c \in Calls :
        /\ (Returned(c) /\ ChildrenOf(c) # {}) => result[c] = Ok
        /\ (pc[c] = "after") => (ChildrenOf(c) # {} /\ ENABLED AfterSpawn(c))

C8_Witness ==
    \E c \in Calls :
        /\ Returned(c) /\ result[c] = Ok
        /\ \E pid \in ChildrenOf(c) : procs[pid].state = "exited_err"

\* C9: every call that has been invoked eventually returns, and a call in
\* flight can always take its next step, also while its child never exits.
C9_EveryCallReturns ==
    /\ \A c \in Calls : (pc[c] = "entry") ~> Returned(c)
    /\ [](\A c \in Calls :
             /\ (pc[c] = "entry") => ENABLED CheckEmpty(c)
             /\ (pc[c] = "block") => ENABLED SpawnOk(c)
             /\ (pc[c] = "after") => ENABLED AfterSpawn(c))

C9_Witness ==
    \E c \in Calls :
        /\ Returned(c)
        /\ \E pid \in ChildrenOf(c) : procs[pid].state \in {"running", "viewing"}

\* C10: a failure of a call is a returned error string and never brings the
\* host down: the host panics only while starting up, before any call, and
\* after a failed call the command can still be invoked with any path.
C10_FailuresNotFatal ==
    /\ (host = "panicked") => \A c \in Calls : pc[c] = "idle"
    /\ \A c \in Calls :
          (Returned(c) /\ (path[c] = "" \/ Failed(c))) =>
              /\ result[c].tag = "Err"
              /\ Len(result[c].msg) > 0
              /\ host = "running"
              /\ \A d \in Calls, p \in Paths :
                    (pc[d] = "idle") => ENABLED Invoke(d, p)

C10_Witness ==
    \E c, d \in Calls :
        /\ Returned(c) /\ Failed(c) /\ result[c].tag = "Err"
        /\ Returned(d) /\ result[d] = Ok
        /\ attempts[d][1].pid > attempts[c][1].pid
        /\ host = "running"

====
